---- MODULE Spec2Model ----
(***************************************************************************)
(* Model of mymac.py: the board-name lookup get_motherboard_name, the      *)
(* memory labels of the two dialogs, and the dark-mode flag shared by      *)
(* AboutThisMac and MoreInfoWindow.                                        *)
(*                                                                         *)
(* A Python string is a sequence of one-character strings.  The alphabet   *)
(* is "a", "b", " ", "\n", "\r" and BadByte, a byte that is not valid      *)
(* UTF-8 and that bytes.decode(errors="ignore") drops.                     *)
(***************************************************************************)
EXTENDS Integers, Sequences, FiniteSets, TLC

VARIABLES
    system_name,       \* platform.system()
    lookup,            \* what the platform lookup does: [kind, data]
    mac_title,         \* text of AboutThisMac.mac_title, <<>> before __init__
    bpc,               \* "start" | "done": has get_motherboard_name run
    total,             \* psutil.virtual_memory().total, in bytes
    memory_label,      \* memory value shown by AboutThisMac, <<>> before
    memory_info,       \* memory value shown by MoreInfoWindow, <<>> before
    mpc,               \* "start" | "about" | "more"
    dark_mode,         \* AboutThisMac.dark_mode
    styleSheet,        \* style sheet applied to AboutThisMac
    more_info_window,  \* AboutThisMac.more_info_window: <<>> or <<window>>
    trace              \* history: one record per handler that has run

boardVars  == <<system_name, lookup, mac_title, bpc>>
memVars    == <<total, memory_label, memory_info, mpc>>
dialogVars == <<dark_mode, styleSheet, more_info_window, trace>>
vars       == <<system_name, lookup, mac_title, bpc, total, memory_label,
                memory_info, mpc, dark_mode, styleSheet, more_info_window,
                trace>>

----------------------------------------------------------------------------
(* Bounds of the model. *)

\* longest board name (before padding) the lookups are given
MaxBody == 22
\* number of dialog handlers run in one behaviour
MaxEvents == 10

----------------------------------------------------------------------------
(* Strings. *)

BadByte == "xFF"

UnknownBoard == <<"U","n","k","n","o","w","n"," ","B","o","a","r","d">>

Ellipsis == <<".", ".", ".">>

TruncLen == 20

\* str.isspace for the characters of the alphabet
IsSpace(c) == c \in {" ", "\n", "\r"}

\* bytes.decode(errors="ignore"): undecodable bytes are dropped
Decode(bytes) == SelectSeq(bytes, LAMBDA c : c # BadByte)

RECURSIVE LStrip(_)
LStrip(s) ==
    IF s = <<>> THEN <<>>
    ELSE IF IsSpace(Head(s)) THEN LStrip(Tail(s))
    ELSE s

RECURSIVE RStrip(_)
RStrip(s) ==
    IF s = <<>> THEN <<>>
    ELSE IF IsSpace(s[Len(s)]) THEN RStrip(SubSeq(s, 1, Len(s) - 1))
    ELSE s

\* str.strip()
Strip(s) == RStrip(LStrip(s))

\* str.splitlines(): breaks at "\n", "\r" and "\r\n"; a line break ends a
\* line even if the line is empty, the end of the text ends only a
\* non-empty one
RECURSIVE SplitFrom(_, _, _)
SplitFrom(s, i, cur) ==
    IF i > Len(s) THEN (IF cur = <<>> THEN <<>> ELSE <<cur>>)
    ELSE IF s[i] = "\n" THEN <<cur>> \o SplitFrom(s, i + 1, <<>>)
    ELSE IF s[i] = "\r"
         THEN <<cur>> \o SplitFrom(s,
                  IF i < Len(s) /\ s[i + 1] = "\n" THEN i + 2 ELSE i + 1, <<>>)
    ELSE SplitFrom(s, i + 1, Append(cur, s[i]))

SplitLines(s) == SplitFrom(s, 1, <<>>)

RECURSIVE MapStrip(_)
MapStrip(ls) ==
    IF ls = <<>> THEN <<>> ELSE <<Strip(Head(ls))>> \o MapStrip(Tail(ls))

----------------------------------------------------------------------------
(* get_motherboard_name *)

\* lines = [line.strip() for line in output.splitlines() if line.strip()]
NonBlankLines(output) ==
    SelectSeq(MapStrip(SplitLines(output)), LAMBDA l : l # <<>>)

\* the Windows branch, given the bytes check_output returned
\* (WindowsName_First: the index is off by one)
WindowsName_First(bytes) ==
    LET lines == NonBlankLines(Decode(bytes))
    IN  IF Len(lines) > 1 THEN lines[1] ELSE UnknownBoard

WindowsName(bytes) ==
    LET lines == NonBlankLines(Decode(bytes))
    IN  IF Len(lines) > 1 THEN lines[2] ELSE UnknownBoard

\* the Linux branch, given what f.read() returned
LinuxName(content) == Strip(content)

\* "Shorten if necessary"
\* (Shorten_Off: >= for >; Shorten_Tail: one character fewer is kept)
Shorten_Off(mb_name) ==
    IF Len(mb_name) >= TruncLen
    THEN SubSeq(mb_name, 1, TruncLen) \o Ellipsis
    ELSE mb_name

Shorten_Tail(mb_name) ==
    IF Len(mb_name) > TruncLen
    THEN SubSeq(mb_name, 1, TruncLen - 1) \o Ellipsis
    ELSE mb_name

Shorten(mb_name) ==
    IF Len(mb_name) > TruncLen
    THEN SubSeq(mb_name, 1, TruncLen) \o Ellipsis
    ELSE mb_name

\* the whole function; lk.kind is "data" when the lookup returned lk.data,
\* else the name of the exception it raised
get_motherboard_name(sys, lk) ==
    IF sys = "Windows" THEN
        IF lk.kind = "data" THEN Shorten(WindowsName(lk.data))
        ELSE UnknownBoard                     \* outer except Exception
    ELSE IF sys = "Linux" THEN
        IF lk.kind = "data" THEN Shorten(LinuxName(lk.data))
        ELSE IF lk.kind = "FileNotFoundError"
             THEN Shorten(UnknownBoard)       \* inner except: pass
        ELSE UnknownBoard                     \* outer except Exception
    ELSE Shorten(UnknownBoard)

----------------------------------------------------------------------------
(* Inputs of the board-name lookup. *)

\* n characters "a", the m-th replaced by c (m = 0: none)
Body(n, m, c) == [i \in 1..n |-> IF i = m THEN c ELSE "a"]

Names == { Body(n, m, c) : n \in 0..MaxBody, m \in 0..MaxBody, c \in {"b", " "} }

WinNames == { Body(n, m, "b") : n \in 0..MaxBody, m \in {0, 1, TruncLen, TruncLen + 1} }

\* contents of /sys/class/dmi/id/board_name
LinuxContents ==
    { lead \o name \o trail :
        lead \in {<<>>, <<" ">>}, name \in Names,
        trail \in {<<>>, <<"\n">>, <<" ", "\n">>} }

\* outputs of "wmic baseboard get product": a header line, the product
\* line, possibly blank lines between and a line after; wmic ends its
\* lines with "\r\r\n"
WindowsOutputs ==
    { hdr \o sep \o gap \o lead \o name \o trail \o sep \o last :
        hdr   \in {<<>>, <<"a", "b", " ">>, <<BadByte>>},
        sep   \in {<<"\n">>, <<"\r", "\n">>, <<"\r", "\r", "\n">>},
        gap   \in {<<>>, <<"\r", "\n">>, <<" ", "\n">>},
        lead  \in {<<>>, <<" ">>},
        name  \in WinNames,
        trail \in {<<>>, <<" ", " ">>},
        last  \in {<<>>, <<"b">>} }

Raised == {"FileNotFoundError", "PermissionError", "CalledProcessError"}

NoData == <<>>

BoardInit ==
    /\ system_name \in {"Windows", "Linux", "Darwin"}
    /\ \/ /\ system_name = "Windows"
          /\ \/ lookup \in [kind : {"data"}, data : WindowsOutputs]
             \/ lookup \in [kind : Raised, data : {NoData}]
       \/ /\ system_name = "Linux"
          /\ \/ lookup \in [kind : {"data"}, data : LinuxContents]
             \/ lookup \in [kind : Raised, data : {NoData}]
       \/ /\ system_name = "Darwin"
          /\ lookup = [kind |-> "none", data |-> NoData]
    /\ mac_title = <<>>
    /\ bpc = "start"

\* AboutThisMac.__init__, lines 142-143
SetTitle ==
    /\ bpc = "start"
    /\ mac_title' = get_motherboard_name(system_name, lookup)
    /\ bpc' = "done"
    /\ UNCHANGED <<system_name, lookup>>

----------------------------------------------------------------------------
(* The memory value of the two dialogs. *)

GiB == 1024 * 1024 * 1024

\* int(x) of a non-negative quotient: the fraction is dropped
\* (IntOf_Round: round() for int())
IntOf_Round(bytes, unit) ==
    (bytes \div unit) + (IF 2 * (bytes % unit) >= unit THEN 1 ELSE 0)

IntOf(bytes, unit) == bytes \div unit

Digit(d) == <<"0", "1", "2", "3", "4", "5", "6", "7", "8", "9">>[d + 1]

\* str(n) for n >= 0
RECURSIVE Str(_)
Str(n) == IF n < 10 THEN <<Digit(n)>> ELSE Str(n \div 10) \o <<Digit(n % 10)>>

\* AboutThisMac.__init__: f"{int(total_memory)} GB"
About_memory(bytes) == Str(IntOf(bytes, GiB)) \o <<" ", "G", "B">>

\* MoreInfoWindow.__init__: f"{int(psutil.virtual_memory().total / (1024**3))} GB"
MoreInfo_memory(bytes) == Str(IntOf(bytes, GiB)) \o <<" ", "G", "B">>

\* byte counts within one GiB of a whole number of GiB, and in between
Remainders ==
    { k * (GiB \div 64) : k \in 0..63 }
        \cup {1, (GiB \div 2) - 1, (GiB \div 2) + 1, GiB - 1}

MemTotals == { q * GiB + r : q \in 0..1, r \in Remainders }

MemInit ==
    /\ total \in MemTotals
    /\ memory_label = <<>>
    /\ memory_info = <<>>
    /\ mpc = "start"

\* AboutThisMac.__init__, lines 154 and 160
AboutMemory ==
    /\ mpc = "start"
    /\ memory_label' = About_memory(total)
    /\ mpc' = "about"
    /\ UNCHANGED <<total, memory_info>>

\* MoreInfoWindow.__init__, line 72
MoreInfoMemory ==
    /\ mpc = "about"
    /\ memory_info' = MoreInfo_memory(total)
    /\ mpc' = "more"
    /\ UNCHANGED <<total, memory_label>>

----------------------------------------------------------------------------
(* Dark mode. *)

NoStyle    == "none"
LightStyle == "background-color: white; color: black;"
DarkStyle  == "background-color: #1E1E1E; color: white;"

\* MoreInfoWindow.apply_dark_mode
MoreInfo_apply_dark_mode(dm) == IF dm THEN DarkStyle ELSE LightStyle

\* AboutThisMac.apply_dark_mode
About_apply_dark_mode(dm) == IF dm THEN DarkStyle ELSE LightStyle

\* MoreInfoWindow.__init__(parent, dark_mode)
\* (MoreInfoWindow_Default: the argument is not passed, the default is used)
MoreInfoWindow_Default(dm) ==
    [dark_mode |-> FALSE, styleSheet |-> MoreInfo_apply_dark_mode(FALSE),
     open |-> FALSE]

MoreInfoWindow_init(dm) ==
    [dark_mode |-> dm, styleSheet |-> MoreInfo_apply_dark_mode(dm),
     open |-> FALSE]

\* AboutThisMac.update_dark_mode(dark_mode): the new flag and style
\* (update_dark_mode_Lost: the signal is not connected, nothing is stored)
update_dark_mode_Lost(about, dm) == about

update_dark_mode(about, dm) ==
    [dark_mode |-> dm, styleSheet |-> About_apply_dark_mode(dm)]

About == [dark_mode |-> dark_mode, styleSheet |-> styleSheet]

Snapshot(op, emitted, dm, ss, win) ==
    [op |-> op, emitted |-> emitted, dark_mode |-> dm, styleSheet |-> ss,
     window |-> win]

MayRun == Len(trace) <= MaxEvents

\* the state after AboutThisMac.__init__: the flag is False and no style
\* sheet has been set
DialogInit ==
    /\ dark_mode = FALSE
    /\ styleSheet = NoStyle
    /\ more_info_window = <<>>
    /\ trace = <<Snapshot("__init__", <<>>, FALSE, NoStyle, <<>>)>>

IsOpen == more_info_window # <<>> /\ more_info_window[1].open

\* AboutThisMac.show_more_info up to the call of exec_(), which shows the
\* dialog modally: the More Info button cannot be pressed again before the
\* dialog is closed
ShowMoreInfo ==
    /\ MayRun
    /\ ~IsOpen
    /\ LET w == [MoreInfoWindow_init(dark_mode) EXCEPT !.open = TRUE]
       IN  /\ more_info_window' = <<w>>
           /\ trace' = Append(trace,
                  Snapshot("show_more_info", <<>>, dark_mode, styleSheet, <<w>>))
    /\ UNCHANGED <<dark_mode, styleSheet>>

\* the dialog is closed: exec_() and show_more_info return
CloseMoreInfo ==
    /\ MayRun
    /\ IsOpen
    /\ LET w == [more_info_window[1] EXCEPT !.open = FALSE]
       IN  /\ more_info_window' = <<w>>
           /\ trace' = Append(trace,
                  Snapshot("close", <<>>, dark_mode, styleSheet, <<w>>))
    /\ UNCHANGED <<dark_mode, styleSheet>>

\* MoreInfoWindow.toggle_dark_mode, with the slot AboutThisMac.update_dark_mode
\* that the emitted signal calls before emit() returns
MoreInfoToggle ==
    /\ MayRun
    /\ IsOpen
    /\ LET dm == ~more_info_window[1].dark_mode
           w  == [more_info_window[1] EXCEPT
                     !.dark_mode = dm,
                     !.styleSheet = MoreInfo_apply_dark_mode(dm)]
           a  == update_dark_mode(About, dm)
       IN  /\ more_info_window' = <<w>>
           /\ dark_mode' = a.dark_mode
           /\ styleSheet' = a.styleSheet
           /\ trace' = Append(trace,
                  Snapshot("MoreInfoWindow.toggle_dark_mode", <<dm>>,
                           a.dark_mode, a.styleSheet, <<w>>))

\* a slip that would make the propagation two-way
AboutToggle_Both ==
    /\ MayRun
    /\ LET dm == ~dark_mode
           ws == IF more_info_window = <<>> THEN <<>>
                 ELSE <<[more_info_window[1] EXCEPT
                            !.dark_mode = dm,
                            !.styleSheet = MoreInfo_apply_dark_mode(dm)]>>
       IN  /\ dark_mode' = dm
           /\ styleSheet' = About_apply_dark_mode(dm)
           /\ more_info_window' = ws
           /\ trace' = Append(trace,
                  Snapshot("AboutThisMac.toggle_dark_mode", <<>>, dm,
                           About_apply_dark_mode(dm), ws))

\* AboutThisMac.toggle_dark_mode.  No signal is connected to this method and
\* nothing in the program calls it: it is no step of the program as wired
\* (Next), only of the direct calls of the dialogs' methods (NextCalls)
AboutToggle ==
    /\ MayRun
    /\ dark_mode' = ~dark_mode
    /\ styleSheet' = About_apply_dark_mode(~dark_mode)
    /\ trace' = Append(trace,
           Snapshot("AboutThisMac.toggle_dark_mode", <<>>, ~dark_mode,
                    About_apply_dark_mode(~dark_mode), more_info_window))
    /\ UNCHANGED more_info_window

----------------------------------------------------------------------------
(* Specifications. *)

\* the parts a specification leaves alone
BoardIdle ==
    /\ system_name = "Darwin"
    /\ lookup = [kind |-> "none", data |-> NoData]
    /\ mac_title = <<>>
    /\ bpc = "start"

MemIdle ==
    /\ total = 0
    /\ memory_label = <<>>
    /\ memory_info = <<>>
    /\ mpc = "start"

\* the board-name lookup
InitBoard == BoardInit /\ MemIdle /\ DialogInit

BoardNext == SetTitle /\ UNCHANGED <<memVars, dialogVars>>

SpecBoard == InitBoard /\ [][BoardNext]_vars

\* the memory labels
InitMemory == BoardIdle /\ MemInit /\ DialogInit

MemNext ==
    \/ AboutMemory /\ UNCHANGED <<boardVars, dialogVars>>
    \/ MoreInfoMemory /\ UNCHANGED <<boardVars, dialogVars>>

SpecMemory == InitMemory /\ [][MemNext]_vars

\* the two dialogs as the program wires them: the events the connections
\* of lines 100, 192 and 199 deliver, and the closing of the modal dialog
Init == BoardIdle /\ MemIdle /\ DialogInit

Next ==
    \/ ShowMoreInfo /\ UNCHANGED <<boardVars, memVars>>
    \/ CloseMoreInfo /\ UNCHANGED <<boardVars, memVars>>
    \/ MoreInfoToggle /\ UNCHANGED <<boardVars, memVars>>

Spec == Init /\ [][Next]_vars

\* the two dialogs under direct calls of their methods: as above, and
\* AboutThisMac.toggle_dark_mode called at any point, also while a
\* secondary dialog is open
InitCalls == BoardIdle /\ MemIdle /\ DialogInit

NextCalls ==
    \/ ShowMoreInfo /\ UNCHANGED <<boardVars, memVars>>
    \/ CloseMoreInfo /\ UNCHANGED <<boardVars, memVars>>
    \/ MoreInfoToggle /\ UNCHANGED <<boardVars, memVars>>
    \/ AboutToggle /\ UNCHANGED <<boardVars, memVars>>

SpecCalls == InitCalls /\ [][NextCalls]_vars

----------------------------------------------------------------------------
(* Properties of the board name.  The value a lookup yields is described    *)
(* here without the operators of get_motherboard_name: by the positions of  *)
(* the non-blank characters and lines.                                      *)

Min(S) == CHOOSE x \in S : \A y \in S : x <= y
Max(S) == CHOOSE x \in S : \A y \in S : x >= y

\* l without the whitespace at its two ends
Trim(l) ==
    LET ns == { k \in 1..Len(l) : ~IsSpace(l[k]) }
    IN  IF ns = {} THEN <<>> ELSE SubSeq(l, Min(ns), Max(ns))

Blank(l) == \A k \in 1..Len(l) : IsSpace(l[k])

Returned == bpc = "done" /\ lookup.kind = "data"

\* the lines of the decoded output of the inventory command
RawLines == SplitLines(Decode(lookup.data))

\* j is the position of the second non-blank line of the output
IsValueLine(j) ==
    /\ j \in 1..Len(RawLines)
    /\ ~Blank(RawLines[j])
    /\ Cardinality({ i \in 1..(j - 1) : ~Blank(RawLines[i]) }) = 1

NonBlankCount == Cardinality({ i \in 1..Len(RawLines) : ~Blank(RawLines[i]) })

\* the title is v cut to TruncLen characters and "..."
IsCut(v) ==
    /\ Len(mac_title) = TruncLen + 3
    /\ \A k \in 1..TruncLen : mac_title[k] = v[k]
    /\ \A k \in (TruncLen + 1)..(TruncLen + 3) : mac_title[k] = "."

\* C1 as stated: a board name of at most 20 characters that the lookup
\* yields (the Windows inventory value, the content of the Linux
\* pseudo-file) is displayed unchanged.
C1_Unchanged ==
    Returned =>
        /\ (system_name = "Linux" /\ Len(lookup.data) <= TruncLen)
               => mac_title = lookup.data
        /\ system_name = "Windows"
               => \A j \in 1..Len(RawLines) :
                      (IsValueLine(j) /\ Len(Trim(RawLines[j])) <= TruncLen)
                          => mac_title = Trim(RawLines[j])

\* C1 amended: a board name of at most 20 characters that the lookup yields
\* is displayed with the whitespace at its two ends removed, and otherwise
\* unchanged; the Windows inventory value has none and is unchanged.
C1_Stripped ==
    Returned =>
        /\ (system_name = "Linux" /\ Len(lookup.data) <= TruncLen)
               => mac_title = Trim(lookup.data)
        /\ system_name = "Windows"
               => \A j \in 1..Len(RawLines) :
                      (IsValueLine(j) /\ Len(Trim(RawLines[j])) <= TruncLen)
                          => mac_title = Trim(RawLines[j])

\* C1 witness: a Linux board name of exactly 20 characters, two of them
\* whitespace at the ends, has been displayed without them.
C1_Witness ==
    /\ Returned
    /\ system_name = "Linux"
    /\ Len(lookup.data) = TruncLen
    /\ Len(Trim(lookup.data)) = TruncLen - 2
    /\ mac_title = Trim(lookup.data)

\* C2 as stated: a board name of more than 20 characters that the lookup
\* yields is displayed as its first 20 characters and "...", 23 characters.
C2_Cut ==
    Returned =>
        /\ (system_name = "Linux" /\ Len(lookup.data) > TruncLen)
               => IsCut(lookup.data)
        /\ system_name = "Windows"
               => \A j \in 1..Len(RawLines) :
                      (IsValueLine(j) /\ Len(Trim(RawLines[j])) > TruncLen)
                          => IsCut(Trim(RawLines[j]))

\* C2 amended: a board name whose length without the whitespace at its two
\* ends is more than 20 is displayed as the first 20 characters of the
\* stripped name and "...", 23 characters.
C2_CutStripped ==
    Returned =>
        /\ (system_name = "Linux" /\ Len(Trim(lookup.data)) > TruncLen)
               => IsCut(Trim(lookup.data))
        /\ system_name = "Windows"
               => \A j \in 1..Len(RawLines) :
                      (IsValueLine(j) /\ Len(Trim(RawLines[j])) > TruncLen)
                          => IsCut(Trim(RawLines[j]))

\* C2 witness: a Linux board name of 21 characters within whitespace, its
\* 20th character distinct from the rest, has been displayed cut.
C2_Witness ==
    /\ Returned
    /\ system_name = "Linux"
    /\ Len(Trim(lookup.data)) = TruncLen + 1
    /\ Len(lookup.data) > TruncLen + 1
    /\ Trim(lookup.data)[TruncLen] = "b"
    /\ IsCut(Trim(lookup.data))

\* C3 as stated: when the lookup raises an error or returns no usable data
\* (Windows output with fewer than two non-blank lines, Linux pseudo-file
\* empty or only whitespace, another system), the title is "Unknown Board".
C3_Fallback ==
    bpc = "done" =>
        /\ lookup.kind # "data" => mac_title = UnknownBoard
        /\ (lookup.kind = "data" /\ system_name = "Windows" /\ NonBlankCount < 2)
               => mac_title = UnknownBoard
        /\ (lookup.kind = "data" /\ system_name = "Linux" /\ Blank(lookup.data))
               => mac_title = UnknownBoard

\* C6 as stated: the title is never the empty string.
C6_NotEmpty == bpc = "done" => Len(mac_title) >= 1

\* C7 as stated: on Windows the second line of the output is the value,
\* for every output of at least two lines.
C7_SecondLine ==
    (Returned /\ system_name = "Windows" /\ Len(RawLines) >= 2)
        => mac_title = Shorten(RawLines[2])

\* C7 amended: on Windows the second non-blank line of the output, without
\* the whitespace at its two ends, is the value (cut to 20 characters and
\* "..." when longer), for every output of at least two non-blank lines;
\* with fewer non-blank lines the value stays "Unknown Board".
C7_SecondNonBlank ==
    (Returned /\ system_name = "Windows") =>
        /\ \A j \in 1..Len(RawLines) :
               IsValueLine(j) =>
                   IF Len(Trim(RawLines[j])) > TruncLen
                   THEN IsCut(Trim(RawLines[j]))
                   ELSE mac_title = Trim(RawLines[j])
        /\ NonBlankCount < 2 => mac_title = UnknownBoard

\* C7 witness: the value was taken from the fourth line of an output whose
\* second line is blank, and had whitespace at both ends.
C7_Witness ==
    /\ Returned
    /\ system_name = "Windows"
    /\ IsValueLine(4)
    /\ Blank(RawLines[2])
    /\ IsSpace(RawLines[4][1])
    /\ IsSpace(RawLines[4][Len(RawLines[4])])
    /\ mac_title = Trim(RawLines[4])

----------------------------------------------------------------------------
(* Properties of the memory value. *)

GB == <<" ", "G", "B">>

\* C9 as stated: both dialogs show the byte count divided by 2^30, rounded
\* to the nearest whole number, and " GB".
C9_Nearest ==
    LET q == total \div GiB
        n == IF (total % GiB) >= GiB \div 2 THEN q + 1 ELSE q
    IN  /\ mpc # "start" => memory_label = Str(n) \o GB
        /\ mpc = "more" => memory_info = Str(n) \o GB

\* C9 amended: both dialogs show the byte count divided by 2^30 with the
\* fraction dropped (rounded down, not to the nearest), and " GB"; both
\* show the same number.
C9_Floor ==
    /\ mpc # "start" =>
           \E q \in 0..1 : /\ (total - q * GiB) \in 0..(GiB - 1)
                           /\ memory_label = Str(q) \o GB
    /\ mpc = "more" => memory_info = memory_label

\* C9 witness: a byte count in the upper half of its gigabyte, shown by
\* both dialogs as the lower number.
C9_Witness ==
    /\ mpc = "more"
    /\ total > GiB
    /\ (total - GiB) > GiB \div 2
    /\ memory_label = <<"1">> \o GB
    /\ memory_info = <<"1">> \o GB

----------------------------------------------------------------------------
(* Properties of the dark-mode flag, over the history of handlers run. *)

SecondaryToggle == "MoreInfoWindow.toggle_dark_mode"
PrimaryToggle   == "AboutThisMac.toggle_dark_mode"

\* the handlers run after entry i up to entry j
Steps(i, j) == (i + 1)..j

Toggles(i, j) ==
    Cardinality({ k \in Steps(i, j) : trace[k].op = SecondaryToggle })

OnlySecondary(i, j) == \A k \in Steps(i, j) : trace[k].op # PrimaryToggle

Parity(i, j) ==
    trace[j].dark_mode =
        (IF Toggles(i, j) % 2 = 0 THEN trace[i].dark_mode
                                  ELSE ~trace[i].dark_mode)

\* C4: over any sequence of openings and toggles of the secondary dialog,
\* the primary's flag is as before the sequence after an even number of
\* toggles and inverted after an odd number, also when the toggles are
\* spread over several successive secondary dialogs.
C4_Parity ==
    \A i \in 1..Len(trace) : \A j \in i..Len(trace) :
        OnlySecondary(i, j) => Parity(i, j)

\* C4 witness: three toggles spread over two successive secondary dialogs,
\* counted from a state in which the flag was already true, after which the
\* primary's flag is the negation of what it was.
C4_Witness ==
    \E i \in 1..Len(trace) : \E j \in i..Len(trace) :
        /\ trace[i].dark_mode = TRUE
        /\ OnlySecondary(i, j)
        /\ Toggles(i, j) = 3
        /\ \E k \in Steps(i, j) :
               /\ trace[k].op = "show_more_info"
               /\ Toggles(i, k) >= 1
               /\ Toggles(k, j) >= 1
        /\ trace[j].dark_mode = FALSE

\* C5: whenever a secondary dialog is open (between two events: a toggle
\* and the slot it calls are one step), its flag equals the primary's.
C5_Equal == IsOpen => more_info_window[1].dark_mode = dark_mode

\* C5 witness: a secondary dialog opened after the flag had become true,
\* created with the primary's flag.
C5_Witness ==
    /\ IsOpen
    /\ trace[Len(trace)].op = "show_more_info"
    /\ dark_mode = TRUE
    /\ more_info_window[1].dark_mode = TRUE

\* C8 as stated: in every state each dialog's style is the one of its flag,
\* and after a toggle on the secondary the primary has the secondary's new
\* flag and style.
C8_StyleMatchesFlag ==
    /\ styleSheet = About_apply_dark_mode(dark_mode)
    /\ more_info_window # <<>> =>
           more_info_window[1].styleSheet =
               MoreInfo_apply_dark_mode(more_info_window[1].dark_mode)
    /\ trace[Len(trace)].op = SecondaryToggle =>
           /\ dark_mode = more_info_window[1].dark_mode
           /\ styleSheet = more_info_window[1].styleSheet

\* C10 as stated: the primary's toggle inverts the primary's flag, applies
\* its style, leaves the secondary alone and emits nothing; the secondary's
\* toggle changes both flags.
C10_OneWay ==
    \A k \in 2..Len(trace) :
        /\ trace[k].op = PrimaryToggle =>
               /\ trace[k].dark_mode = ~trace[k - 1].dark_mode
               /\ trace[k].styleSheet = About_apply_dark_mode(trace[k].dark_mode)
               /\ trace[k].window = trace[k - 1].window
               /\ trace[k].emitted = <<>>
        /\ trace[k].op = SecondaryToggle =>
               /\ trace[k].window[1].dark_mode # trace[k - 1].window[1].dark_mode
               /\ trace[k].dark_mode # trace[k - 1].dark_mode

\* C10 amended: as stated for the primary's toggle; the secondary's toggle
\* inverts the secondary's flag, emits it and sets the primary's flag to
\* it, which changes the primary's flag when the two were equal.
C10_OneWaySets ==
    \A k \in 2..Len(trace) :
        /\ trace[k].op = PrimaryToggle =>
               /\ trace[k].dark_mode = ~trace[k - 1].dark_mode
               /\ trace[k].styleSheet = About_apply_dark_mode(trace[k].dark_mode)
               /\ trace[k].window = trace[k - 1].window
               /\ trace[k].emitted = <<>>
        /\ trace[k].op = SecondaryToggle =>
               /\ trace[k].window[1].dark_mode = ~trace[k - 1].window[1].dark_mode
               /\ trace[k].emitted = <<trace[k].window[1].dark_mode>>
               /\ trace[k].dark_mode = trace[k].window[1].dark_mode

\* C10 witness: the primary's toggle has run while a secondary dialog was
\* open, and the two flags now differ.
C10_Witness ==
    /\ IsOpen
    /\ trace[Len(trace)].op = PrimaryToggle
    /\ more_info_window[1].dark_mode # dark_mode

====
